---- MODULE Spec2Model ----
(***************************************************************************)
(* Tier administration of an allocation: the customer-source selection of  *)
(* the tier form, tier creation and deletion against the row store, the    *)
(* tier list load, the product-override dialog in creation and edit mode,  *)
(* and the allocation overview.  Modelled from AllocationTiers.tsx,        *)
(* TierProductOverrides.tsx and AllocationOverview.                        *)
(***************************************************************************)
EXTENDS Integers, Sequences, FiniteSets, Bags, TLC

(***************************************************************************)
(* Sequence helpers standing for Array.prototype.includes / filter / map.  *)
(***************************************************************************)
Range(s) == {s[i] : i \in 1..Len(s)}

Includes(s, x) == x \in Range(s)

RECURSIVE SeqSum(_)
SeqSum(s) == IF s = <<>> THEN 0 ELSE Head(s) + SeqSum(Tail(s))

RECURSIVE Concat(_)
Concat(ss) == IF ss = <<>> THEN <<>> ELSE Head(ss) \o Concat(Tail(ss))

(***************************************************************************)
(* Source kinds and the item table.                                        *)
(***************************************************************************)
\* The ids of CUSTOMER_SOURCES.
CUSTOMER_SOURCES == <<"query", "tag", "group", "club", "search">>

\* The kinds the model lets the user switch between.
Kinds == {"query", "tag", "group", "search"}

\* An optional number (count?: number) is the empty set or a singleton.
NoCount == {}

\* MOCK_ITEM_DATA restricted to the ids this model uses.
MOCK_ITEM_DATA ==
  [id \in {"q1", "t1", "t2", "g1", "cust1"} |->
     CASE id = "q1" -> [name |-> "High Value Customers", count |-> {150}]
       [] id = "t1" -> [name |-> "VIP", count |-> {150}]
       [] id = "t2" -> [name |-> "Collector", count |-> {75}]
       [] id = "g1" -> [name |-> "West Coast", count |-> {500}]
       [] id = "cust1" -> [name |-> "John Doe", count |-> NoCount]]

\* An id with no entry in MOCK_ITEM_DATA.
UnknownId == "zzz"

\* MOCK_CUSTOMERS: the ids the search list offers.
MOCK_CUSTOMERS == {"cust1"}

\* The ids a kind's list can pass to onItemSelect.  The search list offers
\* MOCK_CUSTOMERS; the other lists take any string, here the kind's own ids
\* of the table and an id that is not in the table.
OfferedItems(kind) ==
  CASE kind = "search" -> MOCK_CUSTOMERS
    [] kind = "query" -> {"q1"}
    [] kind = "tag" -> {"t1", "t2", UnknownId}
    [] kind = "group" -> {"g1", UnknownId}
    [] OTHER -> {}

VARIABLES
  selectedSource,         \* useState<CustomerSourceId>('query')
  selectedItems,          \* useState<string[]>([])
  selectedSources,        \* useState<SelectedSource[]>([])
  tiers,                  \* useState<TierData[]>([]): the displayed tier list
  loading,                \* useState(true) of AllocationTiers
  showProductOverrides,   \* useState<string | null>(null): 0 for null
  products,               \* dialog: useState<AllocationProduct[]>([])
  overrides,              \* dialog: useState<Record<string, ProductOverride>>
  overridesLoading,       \* dialog: useState(true)
  allocation_tiers,       \* row store: relation allocation_tiers
  tier_overrides,         \* row store: relation tier_overrides
  tier_product_overrides, \* row store: relation tier_product_overrides (a bag)
  customer_tiers,         \* row store: relation customer_tiers
  nextTierId,             \* row store: the id the next inserted tier gets
  failures,               \* row store: the calls that have failed so far
  lastOp,                 \* the handler that ran last, its argument and outcome
  showProductOverridesForm, \* useState(false): the creation-mode dialog
  productOverrides,       \* formData.productOverrides, set by onSave
  allocation,             \* AllocationOverview: the allocation prop
  now,                    \* AllocationOverview: new Date() of the render
  overviewTiers,          \* AllocationOverview: useState<TierSummary[]>([])
  overviewLoading,        \* AllocationOverview: useState(true)
  otherSave,              \* a second session's edit-mode save between its
                          \* delete and its insert: its tier id and mapping
  fetchOutcome,           \* proxyRequest: what fetch and the response give
  apiResult,              \* proxyRequest: what the call returned or threw
  inflight,               \* fetchTiers: the loads started and not settled
  latestLoad,             \* fetchTiers: the load that was started last
  loadsStarted            \* fetchTiers: the number of loads started

selVars == <<selectedSource, selectedItems, selectedSources>>
listVars == <<tiers, loading>>
dialogVars == <<showProductOverrides, products, overrides, overridesLoading>>
storeVars == <<allocation_tiers, tier_overrides, tier_product_overrides,
               customer_tiers, nextTierId>>

formVars == <<showProductOverridesForm, productOverrides>>
overviewVars == <<allocation, now, overviewTiers, overviewLoading>>
apiVars == <<fetchOutcome, apiResult>>
loadVars == <<inflight, latestLoad, loadsStarted>>

vars == <<selVars, listVars, dialogVars, storeVars, failures, lastOp,
          formVars, overviewVars, otherSave, apiVars, loadVars>>

NoOp == [op |-> "none", item |-> "", kind |-> "", tier |-> 0, ok |-> TRUE,
         step |-> "", loaded |-> FALSE]

(***************************************************************************)
(* The customer-source selection of the tier form.                         *)
(***************************************************************************)
\* prev.findIndex(s => s.sourceId === currentSource), 0 for -1.
FindIndex(sources, kind) ==
  IF \E i \in 1..Len(sources) : sources[i].sourceId = kind
    THEN CHOOSE i \in 1..Len(sources) :
           /\ sources[i].sourceId = kind
           /\ \A j \in 1..(i - 1) : sources[j].sourceId # kind
    ELSE 0

\* prev.filter(s => s.sourceId !== kind)
WithoutSource(sources, kind) ==
  SelectSeq(sources, LAMBDA s : s.sourceId # kind)

\* newItems.filter(itemId => MOCK_ITEM_DATA[itemId]).map(itemId => ({id, ...}))
SelectedSourceItems(newItems) ==
  LET known == SelectSeq(newItems, LAMBDA i : i \in DOMAIN MOCK_ITEM_DATA)
  IN [k \in 1..Len(known) |->
        [id |-> known[k],
         name |-> MOCK_ITEM_DATA[known[k]].name,
         count |-> MOCK_ITEM_DATA[known[k]].count]]

\* The toggle of handleItemSelect on selectedItems.
ToggleItem(prev, id) ==
  IF Includes(prev, id)
    THEN SelectSeq(prev, LAMBDA i : i # id)
    ELSE Append(prev, id)

\* UpdateSources with the selection of every kind dropped when the active
\* kind's last item goes (setSelectedSources([]) for the filter).
UpdateSources_ClearAll(prev, currentSource, newItems) ==
  IF Len(newItems) = 0
    THEN <<>>
    ELSE LET sourceIndex == FindIndex(prev, currentSource)
             entry == [sourceId |-> currentSource,
                       items |-> SelectedSourceItems(newItems)]
         IN IF sourceIndex = 0
              THEN Append(prev, entry)
              ELSE [prev EXCEPT ![sourceIndex] = entry]

\* UpdateSources with the entry always appended, without the findIndex.
UpdateSources_AlwaysAppend(prev, currentSource, newItems) ==
  IF Len(newItems) = 0
    THEN WithoutSource(prev, currentSource)
    ELSE Append(prev, [sourceId |-> currentSource,
                       items |-> SelectedSourceItems(newItems)])

\* The setSelectedSources update of handleItemSelect.
UpdateSources(prev, currentSource, newItems) ==
  IF Len(newItems) = 0
    THEN WithoutSource(prev, currentSource)
    ELSE LET sourceIndex == FindIndex(prev, currentSource)
             entry == [sourceId |-> currentSource,
                       items |-> SelectedSourceItems(newItems)]
         IN IF sourceIndex = 0
              THEN Append(prev, entry)
              ELSE [prev EXCEPT ![sourceIndex] = entry]

handleSourceChange(source) ==
  /\ UNCHANGED <<formVars, overviewVars, otherSave, apiVars, loadVars>>
  /\ selectedSource' = source
  /\ selectedItems' = <<>>
  /\ lastOp' = [NoOp EXCEPT !.op = "handleSourceChange", !.kind = source]
  /\ UNCHANGED <<selectedSources, listVars, dialogVars, storeVars, failures>>

handleItemSelect(id) ==
  /\ UNCHANGED <<formVars, overviewVars, otherSave, apiVars, loadVars>>
  /\ id \in OfferedItems(selectedSource)
  /\ LET newItems == ToggleItem(selectedItems, id)
     IN /\ selectedItems' = newItems
        /\ selectedSources' = UpdateSources(selectedSources, selectedSource, newItems)
  /\ lastOp' = [NoOp EXCEPT !.op = "handleItemSelect", !.item = id,
                            !.kind = selectedSource]
  /\ UNCHANGED <<selectedSource, listVars, dialogVars, storeVars, failures>>

removeSource(sourceId) ==
  /\ UNCHANGED <<formVars, overviewVars, otherSave, apiVars, loadVars>>
  /\ FindIndex(selectedSources, sourceId) # 0
  /\ selectedSources' = WithoutSource(selectedSources, sourceId)
  /\ selectedItems' = IF sourceId = selectedSource THEN <<>> ELSE selectedItems
  /\ lastOp' = [NoOp EXCEPT !.op = "removeSource", !.kind = sourceId]
  /\ UNCHANGED <<selectedSource, listVars, dialogVars, storeVars, failures>>

\* item.count || 1
CountOrOne(item) ==
  IF item.count = NoCount \/ item.count = {0}
    THEN 1
    ELSE CHOOSE n \in item.count : TRUE

\* selectedSources.reduce(... source.items.reduce(... item.count || 1 ...))
totalCustomers(sources) ==
  SeqSum([i \in 1..Len(sources) |->
            SeqSum([k \in 1..Len(sources[i].items) |->
                      CountOrOne(sources[i].items[k])])])

\* No request of the reporting API has been made, and no load of the tier
\* list is followed call by call.
InitIdle ==
  /\ fetchOutcome = [kind |-> "none"]
  /\ apiResult = [kind |-> "none"]
  /\ inflight = {}
  /\ latestLoad = {}
  /\ loadsStarted = 0

\* The state of the component after construction, over an empty row store.
InitRest ==
  /\ tiers = <<>>
  /\ loading = TRUE
  /\ showProductOverrides = 0
  /\ products = {}
  /\ overrides = <<>>
  /\ overridesLoading = TRUE
  /\ allocation_tiers = {}
  /\ tier_overrides = {}
  /\ tier_product_overrides = EmptyBag
  /\ customer_tiers = {}
  /\ nextTierId = 1
  /\ failures = 0
  /\ lastOp = NoOp
  /\ showProductOverridesForm = FALSE
  /\ productOverrides = {}
  /\ allocation = [id |-> "a1", allocation_type |-> "tier", start_date |-> 0,
                   end_date |-> 20, total_customers |-> {}]
  /\ now = 0
  /\ overviewTiers = <<>>
  /\ overviewLoading = TRUE
  /\ otherSave = {}
  /\ InitIdle

InitSel ==
  /\ selectedSource = "query"
  /\ selectedItems = <<>>
  /\ selectedSources = <<>>
  /\ InitRest

NextSel ==
  \/ \E source \in Kinds : handleSourceChange(source)
  \/ \E id \in UNION {OfferedItems(k) : k \in Kinds} : handleItemSelect(id)
  \/ \E sourceId \in Kinds : removeSource(sourceId)

SpecSel == InitSel /\ [][NextSel]_vars

(***************************************************************************)
(* The row store.  Its relations are reached through supabase; a call can  *)
(* fail (an error response or a network failure), and a failed call leaves *)
(* its relation as it was.                                                 *)
(***************************************************************************)
\* At most this many tiers are ever inserted.
MaxTiers == 2

\* At most this many calls to the row store fail.
MaxFailures == 1

\* k more calls fail.
Fails(k) == failures + k <= MaxFailures /\ failures' = failures + k

\* allocation.id of the allocation prop.
AllocationId == "a1"

\* A missing optional value (undefined, null, NaN) is the empty set, a given
\* one a singleton.
Absent == {}

\* !x of an optional number: undefined, NaN and 0 are falsy.
Falsy(x) == x = Absent \/ x = {0}

\* The value of a given optional.
The(x) == CHOOSE v \in x : TRUE

\* new Date(s).toISOString() of a datetime-local value, read as UTC.
ToISOString(s) == s \o ":00.000Z"

\* The override bundles of the tier form: none, or purchase requirements
\* with the request for product overrides.
FormOverrides ==
  {o \in [requirements : {Absent, {[cartMin |-> 5]}},
          discounts : {Absent},
          shipping : {Absent},
          products : {Absent, {TRUE}}] :
     (o.requirements = Absent) = (o.products = Absent)}

\* The values the tier form can hold at submit: every required field given,
\* or one of them missing (an empty string, NaN or 0).
FormValues ==
  {f \in [name : {"", "Gold"},
          level : {Absent, {0}, {1}, {2}},
          accessStart : {"", "2024-01-01T00:00"},
          accessEnd : {"", "2024-02-01T00:00"},
          overrides : FormOverrides] :
     Cardinality({k \in {"name", "level", "accessStart", "accessEnd"} :
                    \/ k = "name" /\ f.name = ""
                    \/ k = "level" /\ f.level \in {Absent, {0}}
                    \/ k = "accessStart" /\ f.accessStart = ""
                    \/ k = "accessEnd" /\ f.accessEnd = ""}) <= 1}

\* MissingRequired without the test of the name.
MissingRequired_NoName(formData) ==
  \/ Falsy(formData.level)
  \/ formData.accessStart = ""
  \/ formData.accessEnd = ""

\* MissingRequired that also refuses a level an existing tier of the
\* allocation has.
MissingRequired_DuplicateLevel(formData) ==
  \/ formData.name = ""
  \/ Falsy(formData.level)
  \/ formData.accessStart = ""
  \/ formData.accessEnd = ""
  \/ \E r \in allocation_tiers :
       r.allocation_id = AllocationId /\ {r.level} = formData.level

\* !formData.name || !formData.level || !formData.accessStart || !formData.accessEnd
MissingRequired(formData) ==
  \/ formData.name = ""
  \/ Falsy(formData.level)
  \/ formData.accessStart = ""
  \/ formData.accessEnd = ""

\* Object.keys(formData.overrides).length > 0
HasOverrideKeys(o) ==
  o.requirements # Absent \/ o.discounts # Absent \/ o.shipping # Absent
    \/ o.products # Absent

\* The row inserted into allocation_tiers.
TierRow(id, formData, count) ==
  [id |-> id,
   allocation_id |-> AllocationId,
   name |-> formData.name,
   level |-> The(formData.level),
   access_start |-> ToISOString(formData.accessStart),
   access_end |-> ToISOString(formData.accessEnd),
   customer_count |-> count]

\* The row inserted into tier_overrides.
OverridesRow(id, o) ==
  [tier_id |-> id,
   requirements |-> o.requirements,
   discounts |-> o.discounts,
   shipping |-> o.shipping,
   has_product_overrides |-> (o.products = {TRUE})]

\* customerAssignments with the rows of the first selected kind only.
customerAssignments_FirstKindOnly(id, sources) ==
  [k \in 1..Len(sources[1].items) |->
     [allocation_id |-> AllocationId,
      tier_id |-> id,
      customer_id |-> sources[1].items[k].id,
      source_type |-> sources[1].sourceId,
      source_id |-> sources[1].items[k].id]]

\* selectedSources.flatMap(source => source.items.map(item => ({...})))
customerAssignments(id, sources) ==
  Concat([i \in 1..Len(sources) |->
            [k \in 1..Len(sources[i].items) |->
               [allocation_id |-> AllocationId,
                tier_id |-> id,
                customer_id |-> sources[i].items[k].id,
                source_type |-> sources[i].sourceId,
                source_id |-> sources[i].items[k].id]]])

\* .order('level', { ascending: true }): the rows in an order of ascending
\* level; the store leaves the order of rows of equal level open.
OrderedByLevel(rows) ==
  {s \in [1..Cardinality(rows) -> rows] :
     /\ \A i, j \in 1..Cardinality(rows) : s[i] = s[j] => i = j
     /\ \A i \in 1..(Cardinality(rows) - 1) : s[i].level <= s[i + 1].level}

\* One tier of the loaded list: the selected columns and the tier's
\* tier_overrides row (maybeSingle), undefined when there is none, when
\* there are several or when that read failed.
TierView(row, overridesTable, failed) ==
  LET found == {o \in overridesTable : o.tier_id = row.id}
  IN [id |-> row.id,
      name |-> row.name,
      level |-> row.level,
      access_start |-> row.access_start,
      access_end |-> row.access_end,
      customer_count |-> row.customer_count,
      overrides |-> IF row.id \in failed \/ Cardinality(found) # 1
                      THEN Absent ELSE found]

\* The lists a load that gets its tier rows can produce, each with the
\* number of tier_overrides reads that failed.
LoadedTierLists(tiersTable, overridesTable) ==
  {[list |-> [i \in 1..Len(order) |-> TierView(order[i], overridesTable, failed)],
    loaded |-> TRUE,
    failed |-> Cardinality(failed)] :
     order \in OrderedByLevel({r \in tiersTable : r.allocation_id = AllocationId}),
     failed \in SUBSET {r.id : r \in tiersTable}}

\* What fetchTiers leaves in tiers: a loaded list, or the list as it was
\* when the tier read fails (the catch only logs).
FetchTiersResults(tiersTable, overridesTable) ==
  LoadedTierLists(tiersTable, overridesTable)
    \cup {[list |-> tiers, loaded |-> FALSE, failed |-> 1]}

\* delete from allocation_tiers where id = tierId, with the cascade to the
\* rows that reference the tier.
CascadeDelete(tierId) ==
  /\ allocation_tiers' = {r \in allocation_tiers : r.id # tierId}
  /\ tier_overrides' = {o \in tier_overrides : o.tier_id # tierId}
  /\ tier_product_overrides' =
       [r \in {x \in DOMAIN tier_product_overrides : x.tier_id # tierId} |->
          tier_product_overrides[r]]
  /\ customer_tiers' = {c \in customer_tiers : c.tier_id # tierId}

DisplayedIds == {tiers[i].id : i \in 1..Len(tiers)}

(***************************************************************************)
(* AllocationTiers: load, create and delete.                               *)
(***************************************************************************)
\* fetchTiers without its finally block: a load whose tier read fails
\* leaves the loading flag as setLoading(true) set it.
fetchTiers_NoFinally ==
  /\ UNCHANGED <<formVars, overviewVars, otherSave, apiVars, loadVars>>
  /\ loading = TRUE
  /\ showProductOverrides = 0
  /\ \E r \in FetchTiersResults(allocation_tiers, tier_overrides) :
       /\ Fails(r.failed)
       /\ tiers' = r.list
       /\ loading' = ~r.loaded
       /\ lastOp' = [NoOp EXCEPT !.op = "fetchTiers", !.ok = r.loaded,
                                 !.loaded = r.loaded]
  /\ UNCHANGED <<selVars, dialogVars, storeVars>>

\* The load of the mount effect.
fetchTiers ==
  /\ UNCHANGED <<formVars, overviewVars, otherSave, apiVars, loadVars>>
  /\ loading = TRUE
  /\ showProductOverrides = 0
  /\ \E r \in FetchTiersResults(allocation_tiers, tier_overrides) :
       /\ Fails(r.failed)
       /\ tiers' = r.list
       /\ lastOp' = [NoOp EXCEPT !.op = "fetchTiers", !.ok = r.loaded,
                                 !.loaded = r.loaded]
  /\ loading' = FALSE
  /\ UNCHANGED <<selVars, dialogVars, storeVars>>

\* CreationWrites with the earlier inserts undone when a later one fails.
CreationWrites_Rollback(step, id, formData) ==
  LET tier == TierRow(id, formData, totalCustomers(selectedSources))
  IN IF step = "done"
       THEN [tiers |-> allocation_tiers \cup {tier},
             overrides |->
               IF HasOverrideKeys(formData.overrides)
                 THEN tier_overrides \cup {OverridesRow(id, formData.overrides)}
                 ELSE tier_overrides,
             assignments |->
               IF Len(selectedSources) > 0
                 THEN customer_tiers
                        \cup Range(customerAssignments(id, selectedSources))
                 ELSE customer_tiers]
       ELSE [tiers |-> allocation_tiers,
             overrides |-> tier_overrides,
             assignments |-> customer_tiers]

\* The three relations after a tier creation whose calls succeed up to
\* step: "tier", "overrides" and "assignments" name the insert that returns
\* an error, "done" a creation with no error.  Nothing is undone.
CreationWrites(step, id, formData) ==
  LET tier == TierRow(id, formData, totalCustomers(selectedSources))
  IN [tiers |->
        IF step = "tier" THEN allocation_tiers
                         ELSE allocation_tiers \cup {tier},
      overrides |->
        IF step \in {"assignments", "done"} /\ HasOverrideKeys(formData.overrides)
          THEN tier_overrides \cup {OverridesRow(id, formData.overrides)}
          ELSE tier_overrides,
      assignments |->
        IF step = "done" /\ Len(selectedSources) > 0
          THEN customer_tiers \cup Range(customerAssignments(id, selectedSources))
          ELSE customer_tiers]

\* Tier creation (handleSubmit of AllocationTiers).
handleSubmit(formData) ==
  /\ showProductOverrides = 0
  /\ showProductOverridesForm = FALSE
  /\ UNCHANGED <<showProductOverridesForm, overviewVars, otherSave, apiVars, loadVars>>
  /\ IF MissingRequired(formData)
       THEN /\ lastOp' = [NoOp EXCEPT !.op = "handleSubmit", !.ok = FALSE,
                                      !.step = "validate"]
            /\ UNCHANGED <<selVars, listVars, dialogVars, storeVars, failures,
                           productOverrides>>
       ELSE
         /\ nextTierId <= MaxTiers
         /\ \E step \in {"tier", "overrides", "assignments", "done"} :
              LET id == nextTierId
                  after == CreationWrites(step, id, formData)
              IN /\ step = "overrides" => HasOverrideKeys(formData.overrides)
                 /\ step = "assignments" => Len(selectedSources) > 0
                 /\ allocation_tiers' = after.tiers
                 /\ tier_overrides' = after.overrides
                 /\ customer_tiers' = after.assignments
                 /\ nextTierId' = IF step = "tier" THEN id ELSE id + 1
                 /\ UNCHANGED <<selectedSource, dialogVars, tier_product_overrides>>
                 /\ IF step = "done"
                      THEN \* reload, reset the form
                           /\ \E r \in FetchTiersResults(after.tiers, after.overrides) :
                                /\ Fails(r.failed)
                                /\ tiers' = r.list
                                /\ lastOp' = [NoOp EXCEPT !.op = "handleSubmit",
                                                          !.step = "done",
                                                          !.tier = id,
                                                          !.loaded = r.loaded]
                           /\ loading' = FALSE
                           /\ productOverrides' = {}
                           /\ selectedSources' = <<>>
                           /\ selectedItems' = <<>>
                      ELSE \* the catch logs the error
                           /\ Fails(1)
                           /\ lastOp' = [NoOp EXCEPT !.op = "handleSubmit",
                                                     !.ok = FALSE,
                                                     !.step = step,
                                                     !.tier = IF step = "tier"
                                                                THEN 0 ELSE id]
                           /\ UNCHANGED <<selectedSources, selectedItems, listVars,
                                          productOverrides>>

\* deleteTier without "if (error) throw error": a delete that returned an
\* error goes on to the reload like one that succeeded.
deleteTier_ErrorIgnored(tierId) ==
  /\ UNCHANGED <<formVars, overviewVars, otherSave, apiVars, loadVars>>
  /\ showProductOverrides = 0
  /\ loading = FALSE
  /\ tierId \in DisplayedIds
  /\ \E deleted \in BOOLEAN :
       /\ IF deleted THEN CascadeDelete(tierId)
                     ELSE UNCHANGED <<allocation_tiers, tier_overrides,
                                      tier_product_overrides, customer_tiers>>
       /\ \E r \in FetchTiersResults(allocation_tiers', tier_overrides') :
            /\ Fails(r.failed + IF deleted THEN 0 ELSE 1)
            /\ tiers' = r.list
            /\ lastOp' = [NoOp EXCEPT !.op = "deleteTier", !.step = "done",
                                      !.tier = tierId, !.loaded = r.loaded]
  /\ loading' = FALSE
  /\ UNCHANGED <<selVars, dialogVars, nextTierId>>

\* deleteTier that takes the tier off the displayed list before the delete
\* is sent and does not put it back when the delete fails.
deleteTier_Optimistic(tierId) ==
  /\ UNCHANGED <<formVars, overviewVars, otherSave, apiVars, loadVars>>
  /\ showProductOverrides = 0
  /\ loading = FALSE
  /\ tierId \in DisplayedIds
  /\ \/ /\ Fails(1)
        /\ tiers' = SelectSeq(tiers, LAMBDA t : t.id # tierId)
        /\ lastOp' = [NoOp EXCEPT !.op = "deleteTier", !.ok = FALSE,
                                  !.step = "delete", !.tier = tierId]
        /\ UNCHANGED <<selVars, loading, dialogVars, storeVars>>
     \/ /\ CascadeDelete(tierId)
        /\ \E r \in FetchTiersResults(allocation_tiers', tier_overrides') :
             /\ Fails(r.failed)
             /\ tiers' = r.list
             /\ lastOp' = [NoOp EXCEPT !.op = "deleteTier", !.step = "done",
                                       !.tier = tierId, !.loaded = r.loaded]
        /\ loading' = FALSE
        /\ UNCHANGED <<selVars, dialogVars, nextTierId>>

\* Deleting a displayed tier.
deleteTier(tierId) ==
  /\ UNCHANGED <<formVars, overviewVars, otherSave, apiVars, loadVars>>
  /\ showProductOverrides = 0
  /\ loading = FALSE
  /\ tierId \in DisplayedIds
  /\ \/ \* the delete returns an error
        /\ Fails(1)
        /\ lastOp' = [NoOp EXCEPT !.op = "deleteTier", !.ok = FALSE,
                                  !.step = "delete", !.tier = tierId]
        /\ UNCHANGED <<selVars, listVars, dialogVars, storeVars>>
     \/ \* the delete succeeds: reload
        /\ CascadeDelete(tierId)
        /\ \E r \in FetchTiersResults(allocation_tiers', tier_overrides') :
             /\ Fails(r.failed)
             /\ tiers' = r.list
             /\ lastOp' = [NoOp EXCEPT !.op = "deleteTier", !.step = "done",
                                       !.tier = tierId, !.loaded = r.loaded]
        /\ loading' = FALSE
        /\ UNCHANGED <<selVars, dialogVars, nextTierId>>

(***************************************************************************)
(* TierProductOverrides in edit mode (tierId given, no onSave).            *)
(***************************************************************************)
\* The rows of allocation_products of the allocation.
ALLOCATION_PRODUCTS ==
  {[id |-> "p1", allocation_id |-> AllocationId, allow_wish_requests |-> TRUE,
    override_price |-> {25}, min_purchase |-> {5}, max_purchase |-> Absent,
    wish_request_min |-> Absent, wish_request_max |-> Absent],
   [id |-> "p2", allocation_id |-> AllocationId, allow_wish_requests |-> FALSE,
    override_price |-> Absent, min_purchase |-> {2}, max_purchase |-> Absent,
    wish_request_min |-> Absent, wish_request_max |-> Absent]}

\* The number fields of a product override and the product column each is
\* laid over.
NumberFields ==
  {"overridePrice", "minPurchase", "maxPurchase", "wishRequestMin",
   "wishRequestMax"}

BaseColumn(field) ==
  CASE field = "overridePrice" -> "override_price"
    [] field = "minPurchase" -> "min_purchase"
    [] field = "maxPurchase" -> "max_purchase"
    [] field = "wishRequestMin" -> "wish_request_min"
    [] field = "wishRequestMax" -> "wish_request_max"

\* x || '' of an optional number: the number, or nothing for undefined and 0.
OrEmpty(x) == IF Falsy(x) THEN Absent ELSE x

\* What a number input of the dialog shows: its value
\* overrides[product.id]?.field || '', and with an empty value its
\* placeholder (product.column || '').
ShownNumber(map, product, field) ==
  LET value == IF product.id \in DOMAIN map
                 THEN OrEmpty(map[product.id][field])
                 ELSE Absent
  IN IF value # Absent THEN value ELSE OrEmpty(product[BaseColumn(field)])

\* The edits the model lets the user make: a product's field and its new
\* value (a price typed, and the price of p1 cleared again).
OverrideEdits ==
  {<<"p1", "overridePrice", {10}>>, <<"p1", "overridePrice", Absent>>,
   <<"p2", "overridePrice", {10}>>}

\* The state entry built from a stored row (fetchProducts).
RowToOverride(row) ==
  [productId |-> row.product_id,
   overridePrice |-> row.override_price,
   minPurchase |-> row.min_purchase,
   maxPurchase |-> row.max_purchase,
   allowWishRequests |-> row.allow_wish_requests,
   wishRequestMin |-> row.wish_request_min,
   wishRequestMax |-> row.wish_request_max]

\* The row built from a state entry (overridesToInsert).
OverrideToRow(tierId, override) ==
  [tier_id |-> tierId,
   product_id |-> override.productId,
   override_price |-> override.overridePrice,
   min_purchase |-> override.minPurchase,
   max_purchase |-> override.maxPurchase,
   allow_wish_requests |-> override.allowWishRequests,
   wish_request_min |-> override.wishRequestMin,
   wish_request_max |-> override.wishRequestMax]

\* prev[productId] || { productId, allowWishRequests: false }
DefaultOverride(productId) ==
  [productId |-> productId,
   overridePrice |-> Absent,
   minPurchase |-> Absent,
   maxPurchase |-> Absent,
   allowWishRequests |-> FALSE,
   wishRequestMin |-> Absent,
   wishRequestMax |-> Absent]

\* overrides[product.id]?.allowWishRequests ?? product.allow_wish_requests:
\* the state of the wish-request checkbox.
EffectiveAllowWishRequests(map, product) ==
  IF product.id \in DOMAIN map
    THEN map[product.id].allowWishRequests
    ELSE product.allow_wish_requests

\* The stored rows of a tier, as a set.
StoredRows(table, tierId) == {r \in DOMAIN table : r.tier_id = tierId}

\* The overridesMap fetchProducts can build from the rows read: one entry
\* per product id; of several rows of one product the row read last stays.
OverrideMaps(rows) ==
  LET pids == {r.product_id : r \in rows}
  IN {[p \in pids |-> RowToOverride(f[p])] :
        f \in {g \in [pids -> rows] : \A p \in pids : g[p].product_id = p}}

\* Object.values(overrides).map(...) as the bag of rows to insert.
overridesToInsert(tierId, map) ==
  SetToBag({OverrideToRow(tierId, map[p]) : p \in DOMAIN map})

\* The table without the rows of tierId.
WithoutTier(table, tierId) ==
  [r \in {x \in DOMAIN table : x.tier_id # tierId} |-> table[r]]

\* upsert({tier_id, has_product_overrides: true}) on tier_overrides.
UpsertProductFlag(table, tierId) ==
  IF \E o \in table : o.tier_id = tierId
    THEN {IF o.tier_id = tierId
            THEN [o EXCEPT !.has_product_overrides = TRUE] ELSE o : o \in table}
    ELSE table \cup {[tier_id |-> tierId, requirements |-> Absent,
                      discounts |-> Absent, shipping |-> Absent,
                      has_product_overrides |-> TRUE]}

\* Opening the dialog on a displayed tier that shows an override bundle, and
\* the mount effect fetchProducts.
openProductOverrides(tierId) ==
  /\ UNCHANGED <<formVars, overviewVars, otherSave, apiVars, loadVars>>
  /\ showProductOverrides = 0
  /\ loading = FALSE
  /\ \E i \in 1..Len(tiers) : tiers[i].id = tierId /\ tiers[i].overrides # Absent
  /\ showProductOverrides' = tierId
  /\ overridesLoading' = FALSE
  /\ \/ \* the allocation_products read fails
        /\ Fails(1)
        /\ products' = {}
        /\ overrides' = <<>>
        /\ lastOp' = [NoOp EXCEPT !.op = "openProductOverrides", !.ok = FALSE,
                                  !.step = "products", !.tier = tierId]
     \/ \* the tier_product_overrides read fails
        /\ Fails(1)
        /\ products' = ALLOCATION_PRODUCTS
        /\ overrides' = <<>>
        /\ lastOp' = [NoOp EXCEPT !.op = "openProductOverrides", !.ok = FALSE,
                                  !.step = "overrides", !.tier = tierId]
     \/ \* both reads succeed
        /\ UNCHANGED failures
        /\ products' = ALLOCATION_PRODUCTS
        /\ overrides' \in OverrideMaps(StoredRows(tier_product_overrides, tierId))
        /\ lastOp' = [NoOp EXCEPT !.op = "openProductOverrides",
                                  !.step = "done", !.tier = tierId]
  /\ UNCHANGED <<selVars, listVars, storeVars>>

handleOverrideChange(productId, field, value) ==
  /\ UNCHANGED <<formVars, overviewVars, otherSave, apiVars, loadVars>>
  /\ showProductOverrides # 0 \/ showProductOverridesForm
  /\ overridesLoading = FALSE
  /\ \E p \in products : p.id = productId
  /\ LET prev == IF productId \in DOMAIN overrides
                   THEN overrides[productId]
                   ELSE DefaultOverride(productId)
     IN overrides' =
          [p \in DOMAIN overrides \cup {productId} |->
             IF p = productId THEN [prev EXCEPT ![field] = value]
                              ELSE overrides[p]]
  /\ lastOp' = [NoOp EXCEPT !.op = "handleOverrideChange", !.item = productId,
                            !.tier = showProductOverrides]
  /\ UNCHANGED <<selVars, listVars, showProductOverrides, products,
                 overridesLoading, storeVars, failures>>

\* onClose of the edit dialog: close it and reload the tiers.
onClose ==
  /\ UNCHANGED <<formVars, overviewVars, otherSave, apiVars, loadVars>>
  /\ showProductOverrides # 0
  /\ overridesLoading = FALSE
  /\ showProductOverrides' = 0
  /\ products' = {}
  /\ overrides' = <<>>
  /\ overridesLoading' = TRUE
  /\ \E r \in FetchTiersResults(allocation_tiers, tier_overrides) :
       /\ Fails(r.failed)
       /\ tiers' = r.list
       /\ lastOp' = [NoOp EXCEPT !.op = "onClose", !.loaded = r.loaded]
  /\ loading' = FALSE
  /\ UNCHANGED <<selVars, storeVars>>

\* "Configure Products" of the tier form: the dialog in creation mode (no
\* tierId, initialOverrides = {}) and its mount effect, which reads the
\* products only.
openProductOverridesForm ==
  /\ UNCHANGED <<overviewVars, otherSave, apiVars, loadVars>>
  /\ showProductOverrides = 0
  /\ ~showProductOverridesForm
  /\ showProductOverridesForm' = TRUE
  /\ overridesLoading' = FALSE
  /\ overrides' = <<>>
  /\ \/ \* the allocation_products read fails
        /\ Fails(1)
        /\ products' = {}
        /\ lastOp' = [NoOp EXCEPT !.op = "openProductOverridesForm",
                                  !.ok = FALSE, !.step = "products"]
     \/ /\ UNCHANGED failures
        /\ products' = ALLOCATION_PRODUCTS
        /\ lastOp' = [NoOp EXCEPT !.op = "openProductOverridesForm",
                                  !.step = "done"]
  /\ UNCHANGED <<selVars, listVars, showProductOverrides, storeVars,
                 productOverrides>>

\* onClose of the creation-mode dialog (Cancel).
onCloseForm ==
  /\ UNCHANGED <<overviewVars, otherSave, apiVars, loadVars>>
  /\ showProductOverridesForm
  /\ overridesLoading = FALSE
  /\ showProductOverridesForm' = FALSE
  /\ products' = {}
  /\ overrides' = <<>>
  /\ overridesLoading' = TRUE
  /\ lastOp' = [NoOp EXCEPT !.op = "onCloseForm"]
  /\ UNCHANGED <<selVars, listVars, showProductOverrides, storeVars, failures,
                 productOverrides>>

\* handleSubmit of TierProductOverrides.  In creation mode (onSave given) the
\* mapping goes to the parent, which keeps it in formData.productOverrides
\* and closes the dialog.  In edit mode: delete the tier's rows (the result
\* is not looked at), insert the rows of the state, set the flag (the result
\* is not looked at), close.
saveProductOverrides ==
  /\ UNCHANGED <<overviewVars, otherSave, apiVars, loadVars>>
  /\ overridesLoading = FALSE
  /\ IF showProductOverridesForm
       THEN /\ productOverrides' = {overrides}
            /\ showProductOverridesForm' = FALSE
            /\ products' = {}
            /\ overrides' = <<>>
            /\ overridesLoading' = TRUE
            /\ lastOp' = [NoOp EXCEPT !.op = "saveProductOverrides",
                                      !.step = "onSave"]
            /\ UNCHANGED <<selVars, listVars, showProductOverrides, storeVars,
                           failures>>
       ELSE /\ showProductOverrides # 0
            /\ UNCHANGED formVars
            /\ LET tierId == showProductOverrides
                   toInsert == overridesToInsert(tierId, overrides)
                   tierExists == \E r \in allocation_tiers : r.id = tierId
               IN \E deleted \in BOOLEAN, inserted \in BOOLEAN, upserted \in BOOLEAN :
                    LET failed == Cardinality({c \in {<<1, deleted>>, <<2, inserted>>,
                                                      <<3, upserted>>} : ~c[2]})
                        afterDelete ==
                          IF deleted THEN WithoutTier(tier_product_overrides, tierId)
                                     ELSE tier_product_overrides
                        \* rows that reference a tier need the tier to exist
                        insertOk == inserted /\ (toInsert = EmptyBag \/ tierExists)
                        afterUpsert ==
                          IF upserted /\ tierExists
                            THEN UpsertProductFlag(tier_overrides, tierId)
                            ELSE tier_overrides
                    IN IF insertOk
                         THEN /\ tier_product_overrides' = afterDelete (+) toInsert
                              /\ tier_overrides' = afterUpsert
                              /\ showProductOverrides' = 0
                              /\ products' = {}
                              /\ overrides' = <<>>
                              /\ overridesLoading' = TRUE
                              /\ \E r \in FetchTiersResults(allocation_tiers, afterUpsert) :
                                   /\ Fails(failed + r.failed)
                                   /\ tiers' = r.list
                                   /\ lastOp' = [NoOp EXCEPT !.op = "saveProductOverrides",
                                                             !.step = "done",
                                                             !.tier = tierId,
                                                             !.loaded = r.loaded]
                              /\ loading' = FALSE
                              /\ UNCHANGED <<selVars, allocation_tiers, customer_tiers,
                                             nextTierId>>
                         ELSE /\ upserted
                              /\ Fails(failed)
                              /\ tier_product_overrides' = afterDelete
                              /\ lastOp' = [NoOp EXCEPT !.op = "saveProductOverrides",
                                                        !.ok = FALSE, !.step = "insert",
                                                        !.tier = tierId]
                              /\ UNCHANGED <<selVars, listVars, dialogVars,
                                             allocation_tiers, tier_overrides,
                                             customer_tiers, nextTierId>>

(***************************************************************************)
(* The component over the row store.  The tier form starts with one of a   *)
(* few selections the selection handlers reach (FilledReachable).          *)
(***************************************************************************)
FilledSelections ==
  {<<>>,
   <<[sourceId |-> "tag", items |-> SelectedSourceItems(<<"t1">>)],
     [sourceId |-> "search", items |-> SelectedSourceItems(<<"cust1">>)]>>}

Init ==
  /\ selectedSource = "query"
  /\ selectedItems = <<>>
  /\ selectedSources \in FilledSelections
  /\ InitRest

\* Loading, creating and deleting tiers, and opening and closing the dialog.
Next ==
  \/ fetchTiers
  \/ \E formData \in FormValues : handleSubmit(formData)
  \/ \E tierId \in 1..MaxTiers : deleteTier(tierId)
  \/ \E tierId \in 1..MaxTiers : openProductOverrides(tierId)
  \/ onClose

Spec == Init /\ [][Next]_vars

(***************************************************************************)
(* The level of the tier form.  The input is a number input with min="1"   *)
(* whose onChange stores parseInt(e.target.value): an integer of either    *)
(* sign, or NaN for an empty or unparsable field.                          *)
(***************************************************************************)
\* The form values with every level the input can hold: NaN, 0, a negative
\* and a positive integer.
LevelForms ==
  [name : {"Gold"},
   level : {Absent, {0}, {-1}, {1}, {2}},
   accessStart : {"2024-01-01T00:00"},
   accessEnd : {"2024-02-01T00:00"},
   overrides : {o \in FormOverrides : ~HasOverrideKeys(o)}]

NextLevels ==
  \/ fetchTiers
  \/ \E formData \in LevelForms : handleSubmit(formData)
  \/ \E tierId \in 1..MaxTiers : deleteTier(tierId)

SpecLevels == Init /\ [][NextLevels]_vars

(***************************************************************************)
(* The customer assignments of a new tier: the user builds a selection     *)
(* with the selection handlers and creates tiers from it; the form is      *)
(* reset by a creation, so a second tier is created from an empty          *)
(* selection.                                                              *)
(***************************************************************************)
\* The form values of a tier with every required field filled.
AssignmentForms ==
  {f \in LevelForms : f.level = {1}}

NextAssignments ==
  \/ fetchTiers
  \/ \E source \in Kinds :
       allocation_tiers = {} /\ handleSourceChange(source)
  \/ \E id \in UNION {OfferedItems(k) : k \in Kinds} :
       allocation_tiers = {} /\ handleItemSelect(id)
  \/ \E sourceId \in Kinds :
       allocation_tiers = {} /\ removeSource(sourceId)
  \/ \E formData \in AssignmentForms : handleSubmit(formData)

SpecAssignments == InitSel /\ [][NextAssignments]_vars

(***************************************************************************)
(* The product-override dialog at work: tiers are created with an override *)
(* bundle, with or without the request for product overrides, and at most  *)
(* MaxOverrideTiers of them.                                               *)
(***************************************************************************)
MaxOverrideTiers == 1

\* Purchase requirements, with or without the request for product overrides.
OverrideBundles ==
  [requirements : {{[cartMin |-> 5]}},
   discounts : {Absent},
   shipping : {Absent},
   products : {Absent, {TRUE}}]

OverrideForms ==
  [name : {"Gold"},
   level : {{1}},
   accessStart : {"2024-01-01T00:00"},
   accessEnd : {"2024-02-01T00:00"},
   overrides : OverrideBundles]

InitOverrides ==
  /\ selectedSource = "query"
  /\ selectedItems = <<>>
  /\ selectedSources =
       <<[sourceId |-> "tag", items |-> SelectedSourceItems(<<"t1">>)]>>
  /\ InitRest

NextOverrides ==
  \/ fetchTiers
  \/ \E formData \in OverrideForms :
       nextTierId <= MaxOverrideTiers /\ handleSubmit(formData)
  \/ \E tierId \in 1..MaxTiers : deleteTier(tierId)
  \/ \E tierId \in 1..MaxTiers : openProductOverrides(tierId)
  \/ \E e \in OverrideEdits : handleOverrideChange(e[1], e[2], e[3])
  \/ saveProductOverrides
  \/ onClose

SpecOverrides == InitOverrides /\ [][NextOverrides]_vars

(***************************************************************************)
(* Two sessions on one tier.  The second session runs the edit-mode save   *)
(* of TierProductOverrides on its own copy of the mapping; its delete and  *)
(* its insert are separate calls, and calls of this session can come in    *)
(* between.                                                                *)
(***************************************************************************)
\* The mapping the second session submits.
OtherSessionOverrides ==
  [p \in {"p1"} |-> [DefaultOverride("p1") EXCEPT !.overridePrice = {20}]]

\* The second session's save up to its delete call.
otherSaveDelete(tierId) ==
  /\ otherSave = {}
  /\ InitIdle
  /\ \E o \in tier_overrides : o.tier_id = tierId
  /\ tier_product_overrides' = WithoutTier(tier_product_overrides, tierId)
  /\ otherSave' = {[tier |-> tierId, map |-> OtherSessionOverrides]}
  /\ lastOp' = [NoOp EXCEPT !.op = "otherSaveDelete", !.tier = tierId]
  /\ UNCHANGED <<selVars, listVars, dialogVars, allocation_tiers,
                 tier_overrides, customer_tiers, nextTierId, failures,
                 formVars, overviewVars, apiVars,
                 loadVars>>

\* The rest of the second session's save: the insert and the flag upsert.
\* The insert is refused when the tier is gone.
otherSaveInsert ==
  /\ otherSave # {}
  /\ LET s == The(otherSave)
     IN IF \E r \in allocation_tiers : r.id = s.tier
          THEN /\ tier_product_overrides' =
                    tier_product_overrides (+) overridesToInsert(s.tier, s.map)
               /\ tier_overrides' = UpsertProductFlag(tier_overrides, s.tier)
               /\ lastOp' = [NoOp EXCEPT !.op = "otherSaveInsert",
                                         !.step = "done", !.tier = s.tier]
          ELSE /\ UNCHANGED <<tier_product_overrides, tier_overrides>>
               /\ lastOp' = [NoOp EXCEPT !.op = "otherSaveInsert",
                                         !.ok = FALSE, !.step = "insert",
                                         !.tier = s.tier]
  /\ otherSave' = {}
  /\ UNCHANGED <<selVars, listVars, dialogVars, allocation_tiers,
                 customer_tiers, nextTierId, failures, formVars, overviewVars, apiVars,
                 loadVars>>

NextSessions ==
  \/ NextOverrides
  \/ \E tierId \in 1..MaxTiers : otherSaveDelete(tierId)
  \/ otherSaveInsert

SpecSessions == InitOverrides /\ [][NextSessions]_vars

(***************************************************************************)
(* The tier form with the product-override dialog in creation mode: the    *)
(* user edits the products' fields, saves or cancels, and creates tiers.   *)
(***************************************************************************)
\* The edits of the creation-mode dialog: numbers typed into a field (0
\* included), a field cleared again, the wish-request checkbox set and unset.
CreationEdits ==
  {<<"p1", "overridePrice", {10}>>, <<"p1", "overridePrice", {0}>>,
   <<"p1", "overridePrice", Absent>>, <<"p1", "maxPurchase", {10}>>,
   <<"p1", "allowWishRequests", TRUE>>, <<"p1", "allowWishRequests", FALSE>>,
   <<"p2", "minPurchase", {0}>>}

NextCreation ==
  \/ fetchTiers
  \/ openProductOverridesForm
  \/ \E e \in CreationEdits : handleOverrideChange(e[1], e[2], e[3])
  \/ saveProductOverrides
  \/ onCloseForm
  \/ \E formData \in OverrideForms :
       nextTierId <= MaxOverrideTiers /\ handleSubmit(formData)

SpecCreation == InitOverrides /\ [][NextCreation]_vars

(***************************************************************************)
(* fetchTiers call by call.  A load sends its request (loading becomes     *)
(* true), the store answers it from the rows it holds then, and the        *)
(* response settles it (setTiers, then setLoading(false) in the finally).  *)
(* Nothing orders the responses of two loads: fetchTiers keeps no request  *)
(* id and cancels nothing.  At most MaxLoads loads are started.            *)
(***************************************************************************)
MaxLoads == 3

\* fetchTiers up to its first await.  after names what the caller does when
\* the load has settled: handleSubmit resets the form, the others nothing.
StartLoad(after) ==
  /\ loadsStarted < MaxLoads
  /\ loadsStarted' = loadsStarted + 1
  /\ inflight' = inflight \cup {[seq |-> loadsStarted + 1, answer |-> {},
                                 after |-> after]}
  /\ latestLoad' = {}
  /\ loading' = TRUE

\* The mount effect calls fetchTiers.
fetchTiersRequest ==
  /\ loadsStarted = 0
  /\ StartLoad("none")
  /\ lastOp' = [NoOp EXCEPT !.op = "fetchTiers", !.step = "request"]
  /\ UNCHANGED <<selVars, tiers, dialogVars, storeVars, failures, formVars,
                 overviewVars, otherSave, apiVars>>

\* The store answers a load from the rows it holds: the tier read and the
\* override reads of fetchTiers.
fetchTiersRead ==
  /\ \E l \in inflight :
       /\ l.answer = {}
       /\ \E r \in FetchTiersResults(allocation_tiers, tier_overrides) :
            LET answer == [list |-> IF r.loaded THEN r.list ELSE <<>>,
                           loaded |-> r.loaded]
            IN /\ Fails(r.failed)
               /\ inflight' = (inflight \ {l})
                                \cup {[l EXCEPT !.answer = {answer}]}
               /\ latestLoad' = IF l.seq = loadsStarted THEN {answer}
                                                        ELSE latestLoad
  /\ UNCHANGED <<selVars, listVars, dialogVars, storeVars, lastOp, formVars,
                 overviewVars, otherSave, apiVars, loadsStarted>>

\* The response of a load arrives: setTiers for a load that succeeded, the
\* finally's setLoading(false), and the rest of the caller.
fetchTiersSettle ==
  /\ \E l \in inflight :
       /\ l.answer # {}
       /\ inflight' = inflight \ {l}
       /\ tiers' = IF The(l.answer).loaded THEN The(l.answer).list ELSE tiers
       /\ lastOp' = [NoOp EXCEPT !.op = "fetchTiers", !.step = "settled",
                                 !.ok = The(l.answer).loaded,
                                 !.loaded = The(l.answer).loaded]
       /\ IF l.after = "reset"
            THEN /\ selectedSources' = <<>>
                 /\ selectedItems' = <<>>
                 /\ productOverrides' = {}
            ELSE UNCHANGED <<selectedSources, selectedItems, productOverrides>>
  /\ loading' = FALSE
  /\ UNCHANGED <<selectedSource, dialogVars, storeVars, failures,
                 showProductOverridesForm, overviewVars, otherSave, apiVars,
                 latestLoad, loadsStarted>>

\* handleSubmit up to "await fetchTiers()": the validation and the inserts.
handleSubmitCalls(formData) ==
  /\ showProductOverrides = 0
  /\ showProductOverridesForm = FALSE
  /\ UNCHANGED <<selVars, tiers, dialogVars, formVars, overviewVars,
                 otherSave, apiVars, tier_product_overrides>>
  /\ IF MissingRequired(formData)
       THEN /\ lastOp' = [NoOp EXCEPT !.op = "handleSubmit", !.ok = FALSE,
                                      !.step = "validate"]
            /\ UNCHANGED <<loading, loadVars, failures, allocation_tiers,
                           tier_overrides, customer_tiers, nextTierId>>
       ELSE
         /\ nextTierId <= MaxTiers
         /\ \E step \in {"tier", "overrides", "assignments", "done"} :
              LET id == nextTierId
                  after == CreationWrites(step, id, formData)
              IN /\ step = "overrides" => HasOverrideKeys(formData.overrides)
                 /\ step = "assignments" => Len(selectedSources) > 0
                 /\ allocation_tiers' = after.tiers
                 /\ tier_overrides' = after.overrides
                 /\ customer_tiers' = after.assignments
                 /\ nextTierId' = IF step = "tier" THEN id ELSE id + 1
                 /\ lastOp' = [NoOp EXCEPT !.op = "handleSubmit",
                                           !.ok = (step = "done"),
                                           !.step = step,
                                           !.tier = IF step = "tier"
                                                      THEN 0 ELSE id]
                 /\ IF step = "done"
                      THEN StartLoad("reset") /\ UNCHANGED failures
                      ELSE Fails(1) /\ UNCHANGED <<loading, loadVars>>

\* deleteTier up to "await fetchTiers()".
deleteTierCalls(tierId) ==
  /\ showProductOverrides = 0
  /\ loading = FALSE
  /\ tierId \in DisplayedIds
  /\ UNCHANGED <<selVars, tiers, dialogVars, formVars, overviewVars,
                 otherSave, apiVars, nextTierId>>
  /\ \/ \* the delete returns an error
        /\ Fails(1)
        /\ lastOp' = [NoOp EXCEPT !.op = "deleteTier", !.ok = FALSE,
                                  !.step = "delete", !.tier = tierId]
        /\ UNCHANGED <<loading, loadVars, allocation_tiers, tier_overrides,
                       tier_product_overrides, customer_tiers>>
     \/ \* the delete succeeds: reload
        /\ CascadeDelete(tierId)
        /\ StartLoad("none")
        /\ lastOp' = [NoOp EXCEPT !.op = "deleteTier", !.step = "done",
                                  !.tier = tierId]
        /\ UNCHANGED failures

\* The onClose of the edit dialog: it closes the dialog and calls fetchTiers
\* without awaiting it.
onCloseCalls ==
  /\ showProductOverrides # 0
  /\ overridesLoading = FALSE
  /\ showProductOverrides' = 0
  /\ products' = {}
  /\ overrides' = <<>>
  /\ overridesLoading' = TRUE
  /\ StartLoad("none")
  /\ lastOp' = [NoOp EXCEPT !.op = "onClose"]
  /\ UNCHANGED <<selVars, tiers, storeVars, failures, formVars, overviewVars,
                 otherSave, apiVars>>

NextLoads ==
  \/ fetchTiersRequest
  \/ fetchTiersRead
  \/ fetchTiersSettle
  \/ \E formData \in OverrideForms :
       nextTierId <= MaxOverrideTiers /\ handleSubmitCalls(formData)
  \/ \E tierId \in 1..MaxTiers : deleteTierCalls(tierId)
  \/ \E tierId \in 1..MaxTiers : openProductOverrides(tierId)
  \/ onCloseCalls

SpecLoads == InitOverrides /\ [][NextLoads]_vars

(***************************************************************************)
(* AllocationOverview: the progress of the allocation's window, the total  *)
(* customers metric and the tier summary.  Time is counted in half days.   *)
(***************************************************************************)
\* 1000 * 60 * 60 * 24 milliseconds, in half days.
Day == 2

\* The latest instant of the model.
MaxTime == 22

\* Math.ceil(a / d) for d > 0.
CeilDiv(a, d) == -((-a) \div d)

RECURSIVE Gcd(_, _)
Gcd(a, b) == IF b = 0 THEN a ELSE Gcd(b, a % b)

\* A finite number n / d (d > 0) in lowest terms.
Num(n, d) ==
  LET g == Gcd(IF n < 0 THEN -n ELSE n, d)
  IN [kind |-> "num", num |-> n \div g, den |-> d \div g]

NaN == [kind |-> "NaN", num |-> 0, den |-> 1]
PlusInfinity == [kind |-> "+Infinity", num |-> 0, den |-> 1]
MinusInfinity == [kind |-> "-Infinity", num |-> 0, den |-> 1]

\* n / d of two integers in floating point, d >= 0.
JsDivide(n, d) ==
  IF d # 0 THEN Num(n, d)
  ELSE IF n > 0 THEN PlusInfinity
  ELSE IF n < 0 THEN MinusInfinity
  ELSE NaN

\* x * 100
JsTimes100(x) == IF x.kind = "num" THEN Num(x.num * 100, x.den) ELSE x

\* Math.max(k, x) for an integer k
JsMax(k, x) ==
  CASE x.kind = "NaN" -> NaN
    [] x.kind = "+Infinity" -> PlusInfinity
    [] x.kind = "-Infinity" -> Num(k, 1)
    [] OTHER -> IF x.num < k * x.den THEN Num(k, 1) ELSE x

\* Math.min(k, x) for an integer k
JsMin(k, x) ==
  CASE x.kind = "NaN" -> NaN
    [] x.kind = "+Infinity" -> Num(k, 1)
    [] x.kind = "-Infinity" -> MinusInfinity
    [] OTHER -> IF x.num > k * x.den THEN Num(k, 1) ELSE x

daysRemaining(a, n) == CeilDiv(a.end_date - n, Day)

daysTotal(a) == CeilDiv(a.end_date - a.start_date, Day)

\* progress with neither Math.max nor Math.min around the quotient.
progress_Unclamped(a, n) ==
  JsTimes100(JsDivide(daysTotal(a) - daysRemaining(a, n), daysTotal(a)))

\* Math.min(100, Math.max(0, ((daysTotal - daysRemaining) / daysTotal) * 100))
progress(a, n) ==
  JsMin(100, JsMax(0,
    JsTimes100(JsDivide(daysTotal(a) - daysRemaining(a, n), daysTotal(a)))))

\* allocation.total_customers?.toLocaleString() || 0, as a number: the
\* figure of the Total Customers metric.
TotalCustomersFigure(a) ==
  IF a.total_customers = Absent THEN {0} ELSE a.total_customers

\* The allocations the overview is given: a window that starts at 0 and
\* ends at or after its start, of either type, with the total_customers
\* column null, 0 or a number.
OverviewAllocations ==
  [id : {AllocationId},
   allocation_type : {"tier", "individual"},
   start_date : {0},
   end_date : 0..MaxTime,
   total_customers : {Absent, {0}, {150}}]

\* The tier rows of the store when the overview is opened: none, one or two
\* tiers as tier creation writes them.
OverviewTierTables ==
  LET form == [name |-> "Gold", level |-> {1},
               accessStart |-> "2024-01-01T00:00",
               accessEnd |-> "2024-02-01T00:00"]
  IN {{}, {TierRow(1, form, 150)},
      {TierRow(1, form, 150), TierRow(2, [form EXCEPT !.level = {2}], 1)}}

\* The mount effect of AllocationOverview: the tiers of a tier-type
\* allocation, ordered by level; the catch only logs.
overviewFetchTiers ==
  /\ overviewLoading = TRUE
  /\ overviewLoading' = FALSE
  /\ IF allocation.allocation_type = "tier"
       THEN \/ /\ Fails(1)
               /\ overviewTiers' = overviewTiers
               /\ lastOp' = [NoOp EXCEPT !.op = "overviewFetchTiers",
                                         !.ok = FALSE]
            \/ /\ UNCHANGED failures
               /\ overviewTiers' \in
                    OrderedByLevel({r \in allocation_tiers :
                                      r.allocation_id = allocation.id})
               /\ lastOp' = [NoOp EXCEPT !.op = "overviewFetchTiers",
                                         !.loaded = TRUE]
       ELSE /\ UNCHANGED <<failures, overviewTiers>>
            /\ lastOp' = [NoOp EXCEPT !.op = "overviewFetchTiers"]
  /\ UNCHANGED <<selVars, listVars, dialogVars, storeVars, formVars,
                 allocation, now, otherSave, apiVars, loadVars>>

\* A later render: new Date() has moved on.
overviewRender ==
  /\ now < MaxTime
  /\ now' = now + 1
  /\ lastOp' = [NoOp EXCEPT !.op = "overviewRender"]
  /\ UNCHANGED <<selVars, listVars, dialogVars, storeVars, failures, formVars,
                 allocation, overviewTiers, overviewLoading, otherSave, apiVars, loadVars>>

InitOverview ==
  /\ selectedSource = "query"
  /\ selectedItems = <<>>
  /\ selectedSources = <<>>
  /\ tiers = <<>>
  /\ loading = TRUE
  /\ showProductOverrides = 0
  /\ products = {}
  /\ overrides = <<>>
  /\ overridesLoading = TRUE
  /\ allocation_tiers \in OverviewTierTables
  /\ tier_overrides = {}
  /\ tier_product_overrides = EmptyBag
  /\ customer_tiers = {}
  /\ nextTierId = Cardinality(allocation_tiers) + 1
  /\ failures = 0
  /\ lastOp = NoOp
  /\ showProductOverridesForm = FALSE
  /\ productOverrides = {}
  /\ allocation \in OverviewAllocations
  /\ now \in (-Day)..MaxTime
  /\ overviewTiers = <<>>
  /\ overviewLoading = TRUE
  /\ otherSave = {}
  /\ InitIdle

NextOverview ==
  \/ overviewFetchTiers
  \/ overviewRender

SpecOverview == InitOverview /\ [][NextOverview]_vars

(***************************************************************************)
(* totalCustomers as a function of any selection the SelectedSource type   *)
(* admits: the items' counts are drawn from absent, 0 and a positive one.  *)
(***************************************************************************)
MaxTotalEntries == 2
MaxTotalItems == 2

TotalItemRecords ==
  [id : {"i1", "i2"}, name : {"n"}, count : {NoCount, {0}, {3}}]

TotalItemLists ==
  UNION {[1..n -> TotalItemRecords] : n \in 1..MaxTotalItems}

TotalEntries == [sourceId : {"tag", "group"}, items : TotalItemLists]

TotalSelections ==
  {ss \in UNION {[1..n -> TotalEntries] : n \in 0..MaxTotalEntries} :
     \A i, j \in 1..Len(ss) : ss[i].sourceId = ss[j].sourceId => i = j}

InitTotal ==
  /\ selectedSource = "query"
  /\ selectedItems = <<>>
  /\ selectedSources \in TotalSelections
  /\ InitRest

NextTotal ==
  \/ \E source \in Kinds : handleSourceChange(source)
  \/ \E sourceId \in Kinds : removeSource(sourceId)

SpecTotal == InitTotal /\ [][NextTotal]_vars

(***************************************************************************)
(* proxyRequest of the reporting API client.  fetch settles with a         *)
(* rejection or with a response; the body of a response is read as text    *)
(* and parsed as JSON.  A message is a sequence of its parts.              *)
(***************************************************************************)
\* new ApiError(message, status, statusText); statusText is optional.
ApiError(message, status, statusText) ==
  [name |-> "ApiError", message |-> message, status |-> status,
   statusText |-> statusText]

\* What fetch rejects with: a TypeError for a network failure, whose message
\* depends on the browser, or the AbortError of an aborted request.
FetchRejections ==
  {[name |-> n, message |-> <<m>>] :
     n \in {"TypeError", "AbortError"},
     m \in {"Failed to fetch", "Load failed",
            "NetworkError when attempting to fetch resource."}}

\* The status lines a response can carry.
StatusTexts ==
  [s \in {200, 204, 403, 404, 500} |->
     CASE s = 200 -> "OK"
       [] s = 204 -> "No Content"
       [] s = 403 -> "Forbidden"
       [] s = 404 -> "Not Found"
       [] s = 500 -> "Internal Server Error"]

\* What response.json() gives: a rejection for a body that is not JSON, the
\* value null, or an object with an optional message and an optional error
\* field; an error field is 0 or an object with optional message and code.
ParsedBodies ==
  {[kind |-> "invalid"], [kind |-> "null"]}
    \cup {[kind |-> "object", message |-> m, error |-> e] :
            m \in {{}, {"bad request"}},
            e \in {{}, {[falsy |-> TRUE]},
                   {[falsy |-> FALSE, message |-> {}, code |-> {}]},
                   {[falsy |-> FALSE, message |-> {"quota exceeded"},
                     code |-> {429}]}}}

\* The responses fetch resolves with.
FetchResponses ==
  {[status |-> s, statusText |-> StatusTexts[s], contentType |-> c,
    mentionsProxy |-> t, parsed |-> p] :
     s \in DOMAIN StatusTexts,
     c \in {{}, {"application/json"}, {"text/html"}},
     t \in BOOLEAN,
     p \in ParsedBodies}

FetchOutcomes ==
  {[kind |-> "rejected", error |-> e] : e \in FetchRejections}
    \cup {[kind |-> "response", response |-> r] : r \in FetchResponses}

\* response.ok
ResponseOk(response) == response.status >= 200 /\ response.status <= 299

\* contentType?.includes('application/json')
IsJson(response) == response.contentType = {"application/json"}

\* errorData.error?.message || errorData.message || response.statusText, with
\* a body that was already read, that is not JSON or that is null giving the
\* status text.
ErrorMessage(response, bodyRead) ==
  LET p == response.parsed
      ofError == IF p.error # {} /\ ~(The(p.error).falsy)
                   THEN The(p.error).message ELSE {}
  IN  IF ~IsJson(response) \/ bodyRead \/ p.kind # "object"
        THEN response.statusText
        ELSE IF ofError # {} THEN The(ofError)
        ELSE IF p.message # {} THEN The(p.message)
        ELSE response.statusText

\* What the try block of proxyRequest does with a response: it returns a
\* value or throws an error.
TryBlock(response) ==
  LET p == response.parsed IN
  IF response.status = 403 /\ response.mentionsProxy
    THEN [kind |-> "threw",
          error |-> ApiError(<<"CORS proxy access not enabled.">>, 403,
                             {"Forbidden"})]
  ELSE IF ~ResponseOk(response)
    THEN [kind |-> "threw",
          error |-> ApiError(<<"API request failed: ",
                               ErrorMessage(response,
                                            response.status = 403)>>,
                             response.status, {response.statusText})]
  ELSE IF ~IsJson(response)
    THEN [kind |-> "returned", value |-> [kind |-> "null"]]
  ELSE IF p.kind = "invalid"
    THEN [kind |-> "threw",
          error |-> [name |-> "SyntaxError",
                     message |-> <<"Unexpected token">>]]
  ELSE IF p.kind = "null"
    THEN [kind |-> "threw",
          error |-> [name |-> "TypeError",
                     message |-> <<"Cannot read properties of null">>]]
  ELSE IF p.error # {} /\ ~(The(p.error).falsy)
    THEN [kind |-> "threw",
          error |-> ApiError(
                      IF The(p.error).message # {}
                        THEN <<The(The(p.error).message)>>
                        ELSE <<"API Error">>,
                      IF The(p.error).code # {}
                        THEN The(The(p.error).code)
                        ELSE response.status,
                      {})]
  ELSE [kind |-> "returned", value |-> p]

\* The catch block of proxyRequest.
CatchError(error) ==
  IF error.name = "TypeError" /\ error.message = <<"Failed to fetch">>
    THEN ApiError(<<"Network error - unable to reach API.">>, 0,
                  {"Network Error"})
  ELSE IF error.name = "ApiError" THEN error
  ELSE ApiError(error.message, 500, {"Internal Error"})

\* proxyRequest on what fetch gave: the value it resolves with or the error
\* it rejects with.
ProxyResult(outcome) ==
  LET tried == IF outcome.kind = "rejected"
                 THEN [kind |-> "threw", error |-> outcome.error]
                 ELSE TryBlock(outcome.response)
  IN  IF tried.kind = "threw"
        THEN [kind |-> "threw", error |-> CatchError(tried.error)]
        ELSE tried

\* One call of proxyRequest.
proxyRequest ==
  /\ \E outcome \in FetchOutcomes :
       /\ fetchOutcome' = outcome
       /\ apiResult' = ProxyResult(outcome)
  /\ UNCHANGED <<selVars, listVars, dialogVars, storeVars, failures, lastOp,
                 formVars, overviewVars, otherSave, loadVars>>

NextApi == proxyRequest

SpecApi == Init /\ [][NextApi]_vars

(***************************************************************************)
(* Claims about the selection.                                             *)
(***************************************************************************)
\* The ids of the items of kind's entries in sources.
ItemIdsOf(sources, kind) ==
  UNION {{sources[i].items[k].id : k \in 1..Len(sources[i].items)} :
           i \in {j \in 1..Len(sources) : sources[j].sourceId = kind}}

\* The entries of kind in sources, in order.
EntriesOf(sources, kind) ==
  SelectSeq(sources, LAMBDA s : s.sourceId = kind)

AllOfferedItems == UNION {OfferedItems(k) : k \in Kinds}

\* C1: handleItemSelect(id) under the active kind K, for an id of the item
\* table, flips the membership of id in K's list of selectedSources (removed
\* if it is in the list, added if not) and keeps every other item of K's list.
C1_ToggleFlipsCommitted ==
  [][\A id \in AllOfferedItems \cap DOMAIN MOCK_ITEM_DATA :
       handleItemSelect(id) =>
         LET before == ItemIdsOf(selectedSources, selectedSource)
             after == ItemIdsOf(selectedSources', selectedSource)
         IN /\ (id \in before) => (id \notin after)
            /\ (id \notin before) => (id \in after)
            /\ \A other \in before \ {id} : other \in after]_vars

\* C2: switching the active kind leaves selectedSources unchanged, and
\* selecting or deselecting an item under the active kind leaves the entry
\* of every other kind unchanged.
C2_OtherKindsUntouched ==
  [][/\ \A source \in Kinds :
          handleSourceChange(source) => selectedSources' = selectedSources
     /\ \A id \in AllOfferedItems :
          handleItemSelect(id) =>
            \A kind \in Kinds \ {selectedSource} :
              EntriesOf(selectedSources', kind) = EntriesOf(selectedSources, kind)]_vars

\* The last tag item was just deselected while a group item is selected: the
\* tag entry is gone and the group entry still holds its item.
C2_Witness ==
  /\ lastOp.op = "handleItemSelect"
  /\ lastOp.kind = "tag"
  /\ lastOp.item = "t1"
  /\ selectedItems = <<>>
  /\ EntriesOf(selectedSources, "tag") = <<>>
  /\ ItemIdsOf(selectedSources, "group") = {"g1"}

\* C3: no entry of selectedSources has an empty item list.
C3_NoEmptyEntry ==
  \A i \in 1..Len(selectedSources) : Len(selectedSources[i].items) > 0

\* The sum the estimate is specified to be: an item counts as 1 exactly when
\* its cardinality is unknown, and as its cardinality otherwise.
SpecifiedCount(item) ==
  IF item.count = NoCount THEN 1 ELSE CHOOSE n \in item.count : TRUE

SpecifiedTotal(sources) ==
  SeqSum([i \in 1..Len(sources) |->
            SeqSum([k \in 1..Len(sources[i].items) |->
                      SpecifiedCount(sources[i].items[k])])])

StoredIds == {r.id : r \in allocation_tiers}

IdOrder(list) == [i \in 1..Len(list) |-> list[i].id]

SortedByLevel(list) ==
  \A i, j \in 1..Len(list) : i < j => list[i].level <= list[j].level

\* The rows of any dependent relation that reference the tier.
RowsOfTier(tierId) ==
  [overrides |-> {o \in tier_overrides : o.tier_id = tierId},
   products |-> StoredRows(tier_product_overrides, tierId),
   assignments |-> {c \in customer_tiers : c.tier_id = tierId}]

NoRowsOfTier(tierId) ==
  LET rows == RowsOfTier(tierId)
  IN rows.overrides = {} /\ rows.products = {} /\ rows.assignments = {}

\* C5: a loaded tier list is sorted ascending by level, and a load with no
\* write to allocation_tiers since the displayed list was loaded yields the
\* order of the displayed list, also when tiers share a level.
C5_SortedAndRepeatable ==
  [][lastOp'.loaded =>
       /\ SortedByLevel(tiers')
       /\ (allocation_tiers' = allocation_tiers /\ DisplayedIds = StoredIds)
            => IdOrder(tiers') = IdOrder(tiers)]_vars

\* The part of C5 that holds: every displayed list is sorted by level.
C5_Sorted == SortedByLevel(tiers)

\* A required field of the form is missing or empty.
RequiredFieldMissing(f) ==
  f.name = "" \/ f.level = Absent \/ f.accessStart = "" \/ f.accessEnd = ""

\* C6: tier creation with name, level, access start or access end missing
\* or empty ends in the validation error and writes nothing: the relations
\* are as before.
C6_ValidationBeforeWrites ==
  [][\A f \in FormValues :
       (RequiredFieldMissing(f) /\ handleSubmit(f)) =>
         /\ lastOp'.step = "validate"
         /\ ~lastOp'.ok
         /\ UNCHANGED storeVars]_vars

\* A creation was just refused by the validation while the store holds a tier.
C6_Witness ==
  /\ lastOp.op = "handleSubmit"
  /\ lastOp.step = "validate"
  /\ allocation_tiers # {}

\* C7: after a tier creation whose override-bundle insert failed the tier
\* row is stored and no tier_overrides or customer_tiers row of it is; after
\* one whose assignment insert failed the tier row is stored and no
\* customer_tiers row of it is.
C7_PartialCreationStays ==
  /\ (lastOp.op = "handleSubmit" /\ lastOp.step = "overrides") =>
       /\ lastOp.tier \in StoredIds
       /\ RowsOfTier(lastOp.tier).overrides = {}
       /\ RowsOfTier(lastOp.tier).assignments = {}
  /\ (lastOp.op = "handleSubmit" /\ lastOp.step = "assignments") =>
       /\ lastOp.tier \in StoredIds
       /\ RowsOfTier(lastOp.tier).assignments = {}

\* The assignment insert of a creation just failed: the tier row and its
\* override bundle are stored, the selection is still in the form.
C7_Witness ==
  /\ lastOp.op = "handleSubmit"
  /\ lastOp.step = "assignments"
  /\ lastOp.tier \in StoredIds
  /\ RowsOfTier(lastOp.tier).overrides # {}
  /\ Len(selectedSources) > 0

C9_FailedDeleteStaysDisplayed ==
  /\ (lastOp.op = "deleteTier" /\ ~lastOp.ok) => lastOp.tier \in DisplayedIds
  /\ (lastOp.op = "deleteTier" /\ lastOp.tier \notin DisplayedIds) =>
       /\ lastOp.tier \notin StoredIds
       /\ NoRowsOfTier(lastOp.tier)

\* The delete of a stored tier just failed.
C9_Witness ==
  /\ lastOp.op = "deleteTier"
  /\ ~lastOp.ok
  /\ lastOp.tier \in StoredIds

\* C10: after a successful edit-mode save the rows stored for the tier are
\* exactly the rows of the submitted mapping.
C10_SaveReplacesStoredSet ==
  [][(saveProductOverrides /\ lastOp'.step = "done") =>
       [r \in StoredRows(tier_product_overrides', showProductOverrides) |->
          tier_product_overrides'[r]]
         = overridesToInsert(showProductOverrides, overrides)]_vars

(***************************************************************************)
(* Claims about the has_product_overrides flag and the product overrides.  *)
(***************************************************************************)
\* The has_product_overrides flag of tierId is stored as true.
FlagTrue(table, tierId) ==
  \E o \in table : o.tier_id = tierId /\ o.has_product_overrides

\* No step turns a stored true flag of a tier into false.
FlagNeverCleared ==
  \A o \in tier_overrides :
    o.has_product_overrides =>
      \A o2 \in tier_overrides' :
        o2.tier_id = o.tier_id => o2.has_product_overrides

\* C11: after every edit-mode save that is reported successful (the dialog
\* closed through onClose) the tier's has_product_overrides flag is true in
\* the store, and no operation changes a flag from true to false.
C11_FlagSetAndKept ==
  [][/\ (lastOp'.op = "saveProductOverrides" /\ lastOp'.step = "done")
          => FlagTrue(tier_overrides', lastOp'.tier)
     /\ FlagNeverCleared]_vars

\* The part of C11 that holds: a flag is never changed from true to false.
C11_NeverCleared == [][FlagNeverCleared]_vars

\* C12: in every state of the store a tier's has_product_overrides flag is
\* true exactly when tier_product_overrides holds a row of the tier.
C12_FlagMatchesRows ==
  \A id \in StoredIds :
    FlagTrue(tier_overrides, id)
      <=> (StoredRows(tier_product_overrides, id) # {})

\* C13: a creation-mode save writes nothing to the store and hands the
\* mapping to the parent (formData.productOverrides); a tier creation that
\* then succeeds writes the rows of that mapping to tier_product_overrides
\* under the new tier's id.
C13_CreationModeOverridesPersisted ==
  [][/\ (saveProductOverrides /\ showProductOverridesForm)
          => /\ UNCHANGED storeVars
             /\ productOverrides' = {overrides}
     /\ \A formData \in OverrideForms :
          (handleSubmit(formData) /\ lastOp'.step = "done"
             /\ productOverrides # Absent)
            => [r \in StoredRows(tier_product_overrides', lastOp'.tier) |->
                  tier_product_overrides'[r]]
                 = overridesToInsert(lastOp'.tier, The(productOverrides))]_vars

\* The part of C13 that holds: a creation-mode save writes nothing to the
\* store and hands the mapping to the parent.
C13_NoWriteAtSave ==
  [][(saveProductOverrides /\ showProductOverridesForm)
       => /\ UNCHANGED storeVars
          /\ productOverrides' = {overrides}]_vars

\* C14: in every state of the store there is at most one product-override
\* row for a tier and a product, also after a save whose delete failed and
\* after saves of two sessions on one tier whose calls interleave.
C14_AtMostOneRowPerProduct ==
  /\ \A r \in DOMAIN tier_product_overrides : tier_product_overrides[r] = 1
  /\ \A r1, r2 \in DOMAIN tier_product_overrides :
       (r1.tier_id = r2.tier_id /\ r1.product_id = r2.product_id) => r1 = r2

\* C15: for a product whose own allow_wish_requests is true and whose
\* checkbox shows true, an edit of another field of its override leaves the
\* effective allowWishRequests true, and the row a save writes for the
\* product has allow_wish_requests true.
C15_WishDefaultKept ==
  [][\A e \in OverrideEdits \cup CreationEdits :
       \A product \in products :
         (/\ handleOverrideChange(e[1], e[2], e[3])
          /\ e[1] = product.id
          /\ e[2] # "allowWishRequests"
          /\ product.allow_wish_requests
          /\ EffectiveAllowWishRequests(overrides, product))
           => /\ EffectiveAllowWishRequests(overrides', product)
              /\ \A r \in DOMAIN overridesToInsert(1, overrides') :
                   r.product_id = product.id => r.allow_wish_requests]_vars

\* resolve(base, override) of one field: the override when it is defined,
\* the base otherwise.
Resolve(base, override) == IF override # Absent THEN override ELSE base

\* The override of a product's number field in the dialog state.
OverrideOf(map, product, field) ==
  IF product.id \in DOMAIN map THEN map[product.id][field] ELSE Absent

\* C16: in the override dialog the effective value of every field of every
\* product is the override when the override is defined (0 and false
\* included) and the product's base value otherwise, field by field.
C16_EffectiveIsOverrideElseBase ==
  \A product \in products :
    /\ \A field \in NumberFields :
         ShownNumber(overrides, product, field)
           = Resolve(product[BaseColumn(field)],
                     OverrideOf(overrides, product, field))
    /\ EffectiveAllowWishRequests(overrides, product)
         = IF product.id \in DOMAIN overrides
             THEN overrides[product.id].allowWishRequests
             ELSE product.allow_wish_requests

\* The part of C16 that holds: a field whose override and base are not 0
\* resolves to the override when defined and to the base otherwise.
C16_NonZeroResolved ==
  \A product \in products :
    \A field \in NumberFields :
      (OverrideOf(overrides, product, field) # {0}
         /\ product[BaseColumn(field)] # {0})
        => ShownNumber(overrides, product, field)
             = Resolve(product[BaseColumn(field)],
                       OverrideOf(overrides, product, field))

(***************************************************************************)
(* Claims about the allocation overview.                                   *)
(***************************************************************************)
\* C17: for an allocation whose start equals its end the progress is 100
\* for every now, before, at or after the end, and never NaN or 0.
C17_ZeroLengthWindowIsComplete ==
  allocation.end_date = allocation.start_date
    => progress(allocation, now) = Num(100, 1)

\* clamp((daysTotal - daysRemaining) / daysTotal * 100, 0, 100) for
\* daysTotal > 0, from the whole days of the window and of what is left.
ClampedPercentage(total, remaining) ==
  IF total - remaining <= 0 THEN Num(0, 1)
  ELSE IF total - remaining >= total THEN Num(100, 1)
  ELSE Num((total - remaining) * 100, total)

\* C18: for an allocation with end > start the progress is
\* clamp((daysTotal - daysRemaining) / daysTotal * 100, 0, 100), with
\* daysTotal = ceil((end - start) / day) and daysRemaining =
\* ceil((end - now) / day), and lies in [0, 100]; a 10-day window with 5
\* days elapsed gives 50.
C18_ProgressIsClampedShare ==
  allocation.end_date > allocation.start_date =>
    LET total == -((allocation.start_date - allocation.end_date) \div Day)
        remaining == -((now - allocation.end_date) \div Day)
        p == progress(allocation, now)
    IN /\ p = ClampedPercentage(total, remaining)
       /\ p.kind = "num"
       /\ 0 <= p.num /\ p.num <= 100 * p.den
       /\ (total = 10 /\ remaining = 5) => p = Num(50, 1)

\* A 10-day window rendered 5 days after its start: the progress is 50.
C18_Witness ==
  /\ lastOp.op = "overviewRender"
  /\ allocation.start_date = 0
  /\ allocation.end_date = 10 * Day
  /\ now = 5 * Day
  /\ progress(allocation, now) = Num(50, 1)

\* The sum of customer_count over a list of tiers.
SumCustomerCount(list) ==
  SeqSum([i \in 1..Len(list) |-> list[i].customer_count])

\* C19: once the overview has loaded, for a tier-type allocation the total
\* customers figure is the sum of customer_count over the tiers as loaded,
\* and for an individual-type allocation there is no figure (not
\* applicable) rather than 0.
C19_TotalCustomersFromTiers ==
  ~overviewLoading =>
    IF allocation.allocation_type = "tier"
      THEN TotalCustomersFigure(allocation) = {SumCustomerCount(overviewTiers)}
      ELSE TotalCustomersFigure(allocation) = Absent

(***************************************************************************)
(* Claims about the level of a new tier.                                   *)
(***************************************************************************)
\* C20: a tier creation with every required field present and a level that
\* an existing tier of the allocation has is not refused by the validation,
\* and unless the insert call itself fails the new tier row is stored with
\* the level as submitted, next to the tier that already has that level.
C20_DuplicateLevelAccepted ==
  [][\A f \in FormValues :
       (/\ handleSubmit(f)
        /\ ~RequiredFieldMissing(f)
        /\ \E r \in allocation_tiers :
             r.allocation_id = AllocationId /\ {r.level} = f.level)
         => /\ lastOp'.step # "validate"
            /\ lastOp'.step # "tier" =>
                 /\ allocation_tiers \subseteq allocation_tiers'
                 /\ \E r \in allocation_tiers' \ allocation_tiers :
                      r.id = lastOp'.tier /\ {r.level} = f.level]_vars

\* A creation just succeeded and its tier shares its level with another
\* stored tier.
C20_Witness ==
  /\ lastOp.op = "handleSubmit"
  /\ lastOp.step = "done"
  /\ \E r1, r2 \in allocation_tiers :
       r1.id = lastOp.tier /\ r2.id # r1.id /\ r2.level = r1.level

\* C21: every tier row that tier creation has inserted has a level that is
\* a positive integer: a level of 0, a negative level or a non-number
\* never reaches the store.
C21_StoredLevelPositive ==
  \A r \in allocation_tiers : r.level \in Nat /\ r.level >= 1

\* The part of C21 that holds: no stored level is 0.
C21_StoredLevelNotZero ==
  \A r \in allocation_tiers : r.level # 0

(***************************************************************************)
(* Claims about failing calls.                                             *)
(***************************************************************************)
\* The handler that just ran has run fetchTiers.
RanFetchTiers(op) ==
  \/ op.op \in {"fetchTiers", "onClose"}
  \/ op.op \in {"handleSubmit", "deleteTier", "saveProductOverrides"}
       /\ op.step = "done"

\* C22: a step of fetchTiers, tier creation, deleteTier, the override load
\* or the override save in which a call to the store fails ends inside the
\* handler, with the handler's outcome recorded; after a step that ran
\* fetchTiers the loading flag is false, and after the override load the
\* dialog's loading flag is false.
C22_FailuresCaught ==
  [][failures' > failures =>
       /\ lastOp'.op \in {"fetchTiers", "handleSubmit", "deleteTier",
                          "openProductOverrides", "saveProductOverrides",
                          "onClose"}
       /\ RanFetchTiers(lastOp') => ~loading'
       /\ lastOp'.op = "openProductOverrides" =>
            (~overridesLoading' /\ showProductOverrides' # 0)
       /\ (lastOp'.op \in {"handleSubmit", "deleteTier"} /\ ~lastOp'.ok)
            => UNCHANGED <<listVars, dialogVars>>]_vars

\* The tier read of the mount load just failed: the list is empty and the
\* loading flag is false.
C22_Witness ==
  /\ lastOp.op = "fetchTiers"
  /\ ~lastOp.ok
  /\ failures = 1
  /\ ~loading

(***************************************************************************)
(* Claims about proxyRequest.                                              *)
(***************************************************************************)
\* A call of proxyRequest that failed.
Threw == apiResult.kind = "threw"

\* Every failing proxyRequest rejects with an ApiError.
C23_AlwaysApiError == Threw => apiResult.error.name = "ApiError"

\* C23: every failing proxyRequest rejects with an ApiError: a network
\* failure (fetch rejecting with a TypeError) gives status 0, a non-ok
\* response gives the response's status and statusText, an error field in
\* the JSON body of an ok response gives an ApiError, any other thrown error
\* gives status 500; an ok response that is not JSON returns null.
C23_FailuresClassified ==
  /\ Threw => apiResult.error.name = "ApiError"
  /\ fetchOutcome.kind = "rejected" =>
       /\ Threw
       /\ apiResult.error.status =
            IF fetchOutcome.error.name = "TypeError" THEN 0 ELSE 500
  /\ fetchOutcome.kind = "response" =>
       LET r == fetchOutcome.response IN
       /\ ~ResponseOk(r) =>
            /\ Threw
            /\ apiResult.error.status = r.status
            /\ apiResult.error.statusText = {r.statusText}
       /\ ResponseOk(r) /\ ~IsJson(r) =>
            apiResult = [kind |-> "returned", value |-> [kind |-> "null"]]
       /\ ResponseOk(r) /\ IsJson(r) /\ r.parsed.kind = "object" =>
            (Threw <=> r.parsed.error # {} /\ ~(The(r.parsed.error).falsy))
       /\ ResponseOk(r) /\ IsJson(r) /\ r.parsed.kind # "object" =>
            Threw /\ apiResult.error.status = 500

(***************************************************************************)
(* Claims about the customer assignments of a new tier.                    *)
(***************************************************************************)
\* The kind and id of every item of the selection.
SelectedPairs(sources) ==
  UNION {{<<sources[i].sourceId, sources[i].items[k].id>> :
            k \in 1..Len(sources[i].items)} : i \in 1..Len(sources)}

\* The number of items of the selection.
SelectedCount(sources) ==
  SeqSum([i \in 1..Len(sources) |-> Len(sources[i].items)])

\* The step is a tier creation that succeeded.
CreationDone ==
  /\ lastOp'.op = "handleSubmit"
  /\ lastOp'.step = "done"
  /\ nextTierId' = nextTierId + 1

\* C24: a tier creation that succeeds adds to customer_tiers exactly one row
\* per item of selectedSources, over all kinds, with the new tier's id, the
\* allocation's id, the item's kind as source_type and the item's id as
\* source_id; with an empty selection it adds no row.
C24_OneAssignmentPerSelectedItem ==
  [][CreationDone =>
       LET added == customer_tiers' \ customer_tiers IN
       /\ customer_tiers \subseteq customer_tiers'
       /\ Cardinality(added) = SelectedCount(selectedSources)
       /\ {[tier_id |-> r.tier_id, allocation_id |-> r.allocation_id,
            source_type |-> r.source_type, source_id |-> r.source_id] :
              r \in added}
            = {[tier_id |-> nextTierId, allocation_id |-> AllocationId,
                source_type |-> pr[1], source_id |-> pr[2]] :
                 pr \in SelectedPairs(selectedSources)}
       /\ selectedSources = <<>> => customer_tiers' = customer_tiers]_vars

\* A tier was created from a selection of two kinds, one of them with two
\* items: its three assignment rows are stored.
C24_Witness ==
  /\ lastOp.op = "handleSubmit"
  /\ lastOp.step = "done"
  /\ Cardinality({r \in customer_tiers : r.tier_id = lastOp.tier}) = 3
  /\ Cardinality({r.source_type : r \in customer_tiers}) = 2

(***************************************************************************)
(* Claims about the entries of selectedSources and the checked items.      *)
(***************************************************************************)
\* C25: in every state the selection handlers reach, selectedSources holds
\* at most one entry per source kind.
C25_AtMostOneEntryPerKind ==
  \A kind \in Kinds : Len(EntriesOf(selectedSources, kind)) <= 1

\* A second item was checked under a kind that already had its entry, with
\* an entry of another kind present: the entry was replaced in place.
C25_Witness ==
  /\ lastOp.op = "handleItemSelect"
  /\ Len(selectedSources) = 2
  /\ Len(selectedItems) = 2
  /\ \E i \in 1..Len(selectedSources) :
       /\ selectedSources[i].sourceId = selectedSource
       /\ Len(selectedSources[i].items) = 2

\* C26: in every state of the tier form, the checked items (selectedItems,
\* those of the active kind) are the item ids of the active kind's committed
\* entry of selectedSources, and none when the kind has no entry; also after
\* a switch to another kind and back.
C26_CheckedItemsAreCommitted ==
  Range(selectedItems) = ItemIdsOf(selectedSources, selectedSource)

(***************************************************************************)
(* Claims about overlapping loads of the tier list.                        *)
(***************************************************************************)
\* Once every load has settled, the displayed list is what the load started
\* last read (when that load succeeded).
C27_LastStartedLoadWins ==
  (inflight = {} /\ latestLoad # {} /\ The(latestLoad).loaded)
    => tiers = The(latestLoad).list

\* loading is true as long as a load is in flight.
C27_LoadingWhileInFlight == inflight # {} => loading = TRUE

\* C27: when loads of the tier list overlap and their responses arrive in
\* any order, the displayed list is, once all have settled, the result of
\* the load that was started last, and loading is true as long as any load
\* is in flight.
C27_OverlappingLoads ==
  /\ C27_LastStartedLoadWins
  /\ C27_LoadingWhileInFlight

(***************************************************************************)
(* Claims about the displayed list after a creation or a deletion.         *)
(***************************************************************************)
\* C28: in one session without overlapping operations, whenever a tier
\* creation or a tier deletion has finished, with success or with a failure
\* at any step, the displayed list holds exactly the tier rows of the
\* allocation that are committed in the store.  No load is outstanding when
\* loading is false.
C28_DisplayedIsCommitted ==
  (lastOp.op \in {"handleSubmit", "deleteTier"} /\ ~loading) =>
    /\ DisplayedIds = StoredIds
    /\ Len(tiers) = Cardinality(StoredIds)

(***************************************************************************)
(* Claims about the edit-mode save after a failure.                        *)
(***************************************************************************)
\* The rows of tierId in table, with their numbers of copies.
RowsBag(table, tierId) ==
  [r \in StoredRows(table, tierId) |-> table[r]]

\* C29: when the load of a tier's product overrides failed as the edit
\* dialog opened, a save that follows with nothing edited deletes none of
\* the tier's stored overrides.
C29_SaveAfterFailedLoadKeepsRows ==
  [][(/\ lastOp.op = "openProductOverrides"
      /\ ~lastOp.ok
      /\ lastOp'.op = "saveProductOverrides")
       => \A r \in StoredRows(tier_product_overrides, showProductOverrides) :
            /\ r \in DOMAIN tier_product_overrides'
            /\ tier_product_overrides'[r] >= tier_product_overrides[r]]_vars

\* C30: an edit-mode save whose insert returns an error leaves the tier's
\* stored overrides as the complete set of before the save or as the
\* complete submitted set, never empty or partial.
C30_FailedSaveKeepsACompleteSet ==
  [][(lastOp'.op = "saveProductOverrides" /\ lastOp'.step = "insert")
       => \/ RowsBag(tier_product_overrides', showProductOverrides)
               = RowsBag(tier_product_overrides, showProductOverrides)
          \/ RowsBag(tier_product_overrides', showProductOverrides)
               = overridesToInsert(showProductOverrides, overrides)]_vars

====
